---- MODULE Spec2Model ----
(***************************************************************************)
(* Air-quality ELT pipeline: the Raw Store written by Load and the        *)
(* analytics table, aggregate views and summary record built by          *)
(* Transform, in its two implementations: scripts/transform.py            *)
(* (impl = "script") and the Airflow task transform_data of               *)
(* dags/air_quality_elt_dag.py (impl = "dag").                            *)
(*                                                                         *)
(* Numbers.  Concentrations of the extract file are integers in tenths of *)
(* a microgram.  A DOUBLE column of the database is modelled by an exact   *)
(* rational on a fixed grid: table values are integers in units of        *)
(* 1/(10*Unit), where Unit is the least common multiple of the possible    *)
(* group sizes, so that every AVG over a station is a grid point.  An aqi  *)
(* is an integer in units of 1/AqiScale.  SQL NULL is the value NULL.      *)
(* Columns so2, co, temperature, humidity and station_type are copied      *)
(* through by every statement and take part in no expression; they are     *)
(* left out of the rows.                                                   *)
(***************************************************************************)
EXTENDS Integers, Sequences, FiniteSets, Bags, TLC

VARIABLES impl, csv, raw, analytics, views, summary, op, pc, outcome,
          rawBefore, storeBefore, loadNulls, inA, inB, outA, outB

vars == <<impl, csv, raw, analytics, views, summary, op, pc, outcome,
          rawBefore, storeBefore, loadNulls, inA, inB, outA, outB>>

-----------------------------------------------------------------------------
(* Bounds *)

\* Largest number of rows of an extract file.
MaxRows == 3

\* Half-width, in grid points, of the neighbourhood of each breakpoint
\* from which the inputs of the AQI function are drawn.
GridRadius == 2

-----------------------------------------------------------------------------
(* Values *)

NULL == 0 - 1
NOCOL == 0 - 2
NullText == "NULL"
NoColText == "<no column>"

RECURSIVE Gcd(_, _)
Gcd(a, b) == IF b = 0 THEN a ELSE Gcd(b, a % b)

Lcm(a, b) == (a * b) \div Gcd(a, b)

RECURSIVE LcmUpTo(_)
LcmUpTo(n) == IF n <= 1 THEN 1 ELSE Lcm(n, LcmUpTo(n - 1))

\* Table values are in units of 1/(10*Unit).
Unit == LcmUpTo(MaxRows)

\* Sum of a function with a finite domain.
RECURSIVE SumFn(_)
SumFn(f) ==
    IF DOMAIN f = {} THEN 0
    ELSE LET x == CHOOSE y \in DOMAIN f : TRUE
         IN  f[x] + SumFn([y \in (DOMAIN f) \ {x} |-> f[y]])

Max(S) == CHOOSE x \in S : \A y \in S : y <= x
Min(S) == CHOOSE x \in S : \A y \in S : x <= y

\* A table is a bag of rows: SQL tables are unordered and may repeat a row.
BagSize(B) == SumFn(B)

\* SELECT F(row) FROM B: one output row per input row.
BagMap(B, F(_)) ==
    LET img == {F(r) : r \in DOMAIN B}
    IN  [a \in img |-> SumFn([r \in {s \in DOMAIN B : F(s) = a} |-> B[r]])]

\* SELECT * FROM B WHERE P(row).
BagFilter(B, P(_)) == [r \in {s \in DOMAIN B : P(s)} |-> B[r]]

Field(r, f) ==
    CASE f = "pm25" -> r.pm25
      [] f = "pm10" -> r.pm10
      [] f = "no2" -> r.no2
      [] f = "o3" -> r.o3
      [] f = "aqi" -> r.aqi

\* SUM(f) and COUNT(f) of SQL: NULLs are skipped.
SumOf(B, f) == SumFn([r \in {s \in DOMAIN B : Field(s, f) # NULL} |-> Field(r, f) * B[r]])
CountOf(B, f) == SumFn([r \in {s \in DOMAIN B : Field(s, f) # NULL} |-> B[r]])

-----------------------------------------------------------------------------
(* Transformations 1-3 of scripts/transform.py *)

\* n tenths of a microgram per cubic metre, as a table value.
Tenths(n) == n * Unit

\* Denominator on which every segment of the breakpoint table is exact.
AqiDen == 4 * 9 * 5 * 13 * 19
AqiScale == AqiDen * Unit

\* n AQI points, as an aqi value.
Points(n) == n * AqiScale

Coalesce(a, b) == IF a # NULL THEN a ELSE b

\* base + (pm25 - lo) * rise / width, with lo and width in tenths.
Segment(q, lo, base, rise, width) ==
    Points(base) + (q - Tenths(lo)) * ((rise * AqiDen) \div width)

\* AVG(f) OVER (PARTITION BY station_id): NULL when the partition has no
\* non-null value of f.
StationAvg(B, st, f) ==
    LET part == BagFilter(B, LAMBDA r : r.station_id = st)
        n == CountOf(part, f)
    IN  IF n = 0 THEN NULL ELSE SumOf(part, f) \div n

\* The table with the second segment 24.0 wide instead of 23.4.
ScriptBranchesWrongWidth ==
    << [hi |-> 120, lo |-> 0, base |-> 0, rise |-> 50, width |-> 120],
       [hi |-> 354, lo |-> 120, base |-> 50, rise |-> 50, width |-> 240],
       [hi |-> 554, lo |-> 354, base |-> 100, rise |-> 50, width |-> 200],
       [hi |-> 1504, lo |-> 554, base |-> 150, rise |-> 50, width |-> 950],
       [hi |-> 2504, lo |-> 1504, base |-> 200, rise |-> 100, width |-> 1000],
       [hi |-> NULL, lo |-> 2504, base |-> 300, rise |-> 100, width |-> 1500] >>

\* The table with the ELSE branch starting again from 200.
ScriptBranchesBaseSlip ==
    << [hi |-> 120, lo |-> 0, base |-> 0, rise |-> 50, width |-> 120],
       [hi |-> 354, lo |-> 120, base |-> 50, rise |-> 50, width |-> 234],
       [hi |-> 554, lo |-> 354, base |-> 100, rise |-> 50, width |-> 200],
       [hi |-> 1504, lo |-> 554, base |-> 150, rise |-> 50, width |-> 950],
       [hi |-> 2504, lo |-> 1504, base |-> 200, rise |-> 100, width |-> 1000],
       [hi |-> NULL, lo |-> 2504, base |-> 200, rise |-> 100, width |-> 1500] >>

\* The branches of a CASE on pm25, in order: WHEN pm25 <= hi THEN
\* base + (pm25 - lo) * rise / width; hi = NULL is the ELSE branch.
ScriptBranches ==
    << [hi |-> 120, lo |-> 0, base |-> 0, rise |-> 50, width |-> 120],
       [hi |-> 354, lo |-> 120, base |-> 50, rise |-> 50, width |-> 234],
       [hi |-> 554, lo |-> 354, base |-> 100, rise |-> 50, width |-> 200],
       [hi |-> 1504, lo |-> 554, base |-> 150, rise |-> 50, width |-> 950],
       [hi |-> 2504, lo |-> 1504, base |-> 200, rise |-> 100, width |-> 1000],
       [hi |-> NULL, lo |-> 2504, base |-> 300, rise |-> 100, width |-> 1500] >>

BranchValue(br, q) == Segment(q, br.lo, br.base, br.rise, br.width)

\* The first branch whose WHEN holds, the ELSE branch if none does.
BranchOf(branches, q) ==
    Min({i \in DOMAIN branches :
            branches[i].hi = NULL \/ q <= Tenths(branches[i].hi)})

\* The CASE of the with_aqi step.  A NULL pm25 makes every WHEN unknown, so
\* the ELSE branch is taken and its arithmetic on NULL gives NULL.
AqiScript(q) ==
    IF q = NULL THEN NULL
    ELSE BranchValue(ScriptBranches[BranchOf(ScriptBranches, q)], q)

\* CASE WHEN aqi <= 50 THEN 'Good' ... ELSE 'Hazardous': a NULL aqi fails
\* every WHEN and falls to the ELSE.
HealthCategory(aqi) ==
    CASE aqi # NULL /\ aqi <= Points(50) -> "Good"
      [] aqi # NULL /\ aqi > Points(50) /\ aqi <= Points(100) -> "Moderate"
      [] aqi # NULL /\ aqi > Points(100) /\ aqi <= Points(150) -> "Unhealthy for Sensitive Groups"
      [] aqi # NULL /\ aqi > Points(150) /\ aqi <= Points(200) -> "Unhealthy"
      [] aqi # NULL /\ aqi > Points(200) /\ aqi <= Points(300) -> "Very Unhealthy"
      [] OTHER -> "Hazardous"

HealthColor(aqi) ==
    CASE aqi # NULL /\ aqi <= Points(50) -> "#00E400"
      [] aqi # NULL /\ aqi > Points(50) /\ aqi <= Points(100) -> "#FFFF00"
      [] aqi # NULL /\ aqi > Points(100) /\ aqi <= Points(150) -> "#FF7E00"
      [] aqi # NULL /\ aqi > Points(150) /\ aqi <= Points(200) -> "#FF0000"
      [] aqi # NULL /\ aqi > Points(200) /\ aqi <= Points(300) -> "#8F3F97"
      [] OTHER -> "#7E0023"

\* timestamp is a count of hours since 2025-11-01 00:00, a Saturday.
HourOf(ts) == ts % 24
DateOf(ts) == ts \div 24
DayOfWeekOf(ts) == (6 + DateOf(ts)) % 7

\* One row of the SELECT of CREATE OR REPLACE TABLE analytics_air_quality.
ScriptRow(r, B) ==
    LET pm25 == Coalesce(r.pm25, StationAvg(B, r.station_id, "pm25"))
        aqi == AqiScript(pm25)
    IN  [station_id |-> r.station_id,
         timestamp |-> r.timestamp,
         pm25 |-> pm25,
         pm10 |-> Coalesce(r.pm10, StationAvg(B, r.station_id, "pm10")),
         no2 |-> Coalesce(r.no2, StationAvg(B, r.station_id, "no2")),
         o3 |-> Coalesce(r.o3, StationAvg(B, r.station_id, "o3")),
         aqi |-> aqi,
         hour |-> HourOf(r.timestamp),
         day_of_week |-> DayOfWeekOf(r.timestamp),
         date |-> DateOf(r.timestamp),
         health_category |-> HealthCategory(aqi),
         health_color |-> HealthColor(aqi)]

\* The same SELECT with the rows of missing pm25 filtered out.
ScriptAnalyticsRowsDropNulls(B) ==
    BagMap(BagFilter(B, LAMBDA r : r.pm25 # NULL), LAMBDA r : ScriptRow(r, B))

ScriptAnalyticsRows(B) == BagMap(B, LAMBDA r : ScriptRow(r, B))

-----------------------------------------------------------------------------
(* The statements of the DAG task transform_data *)

\* (SELECT AVG(f) FROM raw r2 WHERE r2.station_id = st AND f IS NOT NULL)
DagStationAvg(B, st, f) ==
    LET sel == BagFilter(B, LAMBDA r : r.station_id = st /\ Field(r, f) # NULL)
        n == BagSize(sel)
    IN  IF n = 0 THEN NULL ELSE SumOf(sel, f) \div n

\* The branches of the CASE of the aqi column.
DagBranches ==
    << [hi |-> 120, lo |-> 0, base |-> 0, rise |-> 50, width |-> 120],
       [hi |-> 354, lo |-> 120, base |-> 50, rise |-> 50, width |-> 234],
       [hi |-> 554, lo |-> 354, base |-> 100, rise |-> 50, width |-> 200],
       [hi |-> 1504, lo |-> 554, base |-> 150, rise |-> 50, width |-> 950],
       [hi |-> NULL, lo |-> 1504, base |-> 200, rise |-> 100, width |-> 1000] >>

\* The CASE of the aqi column; c is COALESCE(pm25, 0), never NULL.
AqiDag(c) == BranchValue(DagBranches[BranchOf(DagBranches, c)], c)

\* One row of the SELECT of CREATE TABLE analytics_air_quality.  In the
\* select list the name pm25 is the column of raw_data_air_quality, not the
\* output column of the same name: aqi is computed from the raw value.
DagRow(r, B) ==
    [station_id |-> r.station_id,
     timestamp |-> r.timestamp,
     pm25 |-> Coalesce(r.pm25, DagStationAvg(B, r.station_id, "pm25")),
     pm10 |-> r.pm10,
     no2 |-> Coalesce(r.no2, DagStationAvg(B, r.station_id, "no2")),
     o3 |-> r.o3,
     aqi |-> AqiDag(Coalesce(r.pm25, 0)),
     hour |-> NOCOL,
     day_of_week |-> NOCOL,
     date |-> NOCOL,
     health_category |-> NoColText,
     health_color |-> NoColText]

DagAnalyticsRows(B) == BagMap(B, LAMBDA r : DagRow(r, B))

\* ALTER TABLE analytics_air_quality ADD COLUMN health_category VARCHAR
DagAddCategoryColumn(A) ==
    BagMap(A, LAMBDA a : [a EXCEPT !.health_category = NullText])

\* UPDATE analytics_air_quality SET health_category = CASE ... END
DagUpdateCategory(A) ==
    BagMap(A, LAMBDA a : [a EXCEPT !.health_category = HealthCategory(a.aqi)])

-----------------------------------------------------------------------------
(* Aggregates *)

\* ROUND(num / den, places) in units of 1/scale, scale = 10^places; halves
\* round away from zero.  NULL when num is NULL.
RoundRatio(num, den, scale) ==
    IF num = NULL THEN NULL
    ELSE (num \div den) * scale + ((num % den) * scale * 2 + den) \div (2 * den)

\* Units per microgram, or per AQI point, of a column.
UnitsOf(f) == IF f = "aqi" THEN AqiScale ELSE 10 * Unit

\* ROUND(AVG(f), places); AVG is NULL when no row has a value.
RoundAvg(B, f, scale) ==
    LET n == CountOf(B, f)
    IN  IF n = 0 THEN NULL ELSE RoundRatio(SumOf(B, f), n * UnitsOf(f), scale)

NonNull(B, f) == {Field(r, f) : r \in {s \in DOMAIN B : Field(s, f) # NULL}}

\* ROUND(MAX(f), places) and ROUND(MIN(f), places).
RoundMax(B, f, scale) ==
    IF NonNull(B, f) = {} THEN NULL ELSE RoundRatio(Max(NonNull(B, f)), UnitsOf(f), scale)
RoundMin(B, f, scale) ==
    IF NonNull(B, f) = {} THEN NULL ELSE RoundRatio(Min(NonNull(B, f)), UnitsOf(f), scale)

\* SUM(CASE WHEN health_category IN cats THEN 1 ELSE 0 END)
CountIn(B, cats) == BagSize(BagFilter(B, LAMBDA r : r.health_category \in cats))

\* ROUND(SUM(CASE ...) * 100.0 / COUNT(*), 1), in tenths of a percent; over
\* no row at all the SUM is NULL and so is the result.
PctIn(B, cats) ==
    IF BagSize(B) = 0 THEN NULL ELSE RoundRatio(CountIn(B, cats) * 100, BagSize(B), 10)

\* AVG(f) without rounding, as a fraction in lowest terms of column units.
ExactAvg(B, f) ==
    LET n == CountOf(B, f)
        t == SumOf(B, f)
        g == Gcd(t, n)
    IN  IF n = 0 THEN <<NULL, 1>> ELSE <<t \div g, n \div g>>

\* The members of a finite set of integers in ascending order (ORDER BY).
RECURSIVE Ascending(_)
Ascending(S) == IF S = {} THEN <<>> ELSE <<Min(S)>> \o Ascending(S \ {Min(S)})

\* daily_stats of scripts/transform.py
DailyStats(A) ==
    { LET g == BagFilter(A, LAMBDA r : r.date = k[1] /\ r.station_id = k[2])
      IN  [date |-> k[1],
           station_id |-> k[2],
           avg_pm25 |-> RoundAvg(g, "pm25", 100),
           max_pm25 |-> RoundMax(g, "pm25", 100),
           min_pm25 |-> RoundMin(g, "pm25", 100),
           avg_pm10 |-> RoundAvg(g, "pm10", 100),
           avg_no2 |-> RoundAvg(g, "no2", 100),
           avg_o3 |-> RoundAvg(g, "o3", 100),
           avg_aqi |-> RoundAvg(g, "aqi", 100),
           max_aqi |-> RoundMax(g, "aqi", 100),
           measurements |-> BagSize(g),
           good_hours |-> CountIn(g, {"Good"}),
           unhealthy_hours |-> CountIn(g, {"Unhealthy", "Very Unhealthy", "Hazardous"})]
      : k \in {<<r.date, r.station_id>> : r \in DOMAIN A} }

\* hourly_patterns of scripts/transform.py, ordered by hour
HourlyPatterns(A) ==
    LET hours == Ascending({r.hour : r \in DOMAIN A})
    IN  [i \in DOMAIN hours |->
            LET g == BagFilter(A, LAMBDA r : r.hour = hours[i])
            IN  [hour |-> hours[i],
                 avg_pm25 |-> RoundAvg(g, "pm25", 100),
                 avg_pm10 |-> RoundAvg(g, "pm10", 100),
                 avg_no2 |-> RoundAvg(g, "no2", 100),
                 avg_o3 |-> RoundAvg(g, "o3", 100),
                 avg_aqi |-> RoundAvg(g, "aqi", 100),
                 measurements |-> BagSize(g)]]

\* station_summary of scripts/transform.py
StationSummary(A) ==
    { LET g == BagFilter(A, LAMBDA r : r.station_id = st)
      IN  [station_id |-> st,
           avg_pm25 |-> RoundAvg(g, "pm25", 100),
           avg_aqi |-> RoundAvg(g, "aqi", 100),
           max_aqi |-> RoundMax(g, "aqi", 100),
           total_measurements |-> BagSize(g),
           pct_good |-> PctIn(g, {"Good"}),
           pct_unhealthy |-> PctIn(g, {"Unhealthy", "Very Unhealthy"})]
      : st \in {r.station_id : r \in DOMAIN A} }

\* The summary query of scripts/transform.py, written to summary_stats.json
SummaryStats(A) ==
    [total_records |-> BagSize(A),
     total_days |-> Cardinality({r.date : r \in DOMAIN A}),
     total_stations |-> Cardinality({r.station_id : r \in DOMAIN A}),
     avg_pm25 |-> RoundAvg(A, "pm25", 100),
     max_pm25 |-> RoundMax(A, "pm25", 100),
     avg_aqi |-> RoundAvg(A, "aqi", 100),
     max_aqi |-> RoundMax(A, "aqi", 100),
     pct_good |-> PctIn(A, {"Good"}),
     pct_moderate |-> PctIn(A, {"Moderate"}),
     pct_unhealthy |-> PctIn(A, {"Unhealthy", "Very Unhealthy", "Hazardous"})]

\* hourly_patterns of the DAG task, ordered by hour
DagHourlyPatterns(A) ==
    LET hours == Ascending({HourOf(r.timestamp) : r \in DOMAIN A})
    IN  [i \in DOMAIN hours |->
            LET g == BagFilter(A, LAMBDA r : HourOf(r.timestamp) = hours[i])
            IN  [hour |-> hours[i],
                 avg_pm25 |-> ExactAvg(g, "pm25"),
                 avg_no2 |-> ExactAvg(g, "no2"),
                 avg_aqi |-> ExactAvg(g, "aqi")]]

\* station_summary of the DAG task
DagStationSummary(A) ==
    { LET g == BagFilter(A, LAMBDA r : r.station_id = st)
      IN  [station_id |-> st,
           avg_pm25 |-> RoundAvg(g, "pm25", 10),
           avg_aqi |-> RoundAvg(g, "aqi", 10),
           max_aqi |-> RoundMax(g, "aqi", 1),
           good_pct |-> PctIn(g, {"Good"}),
           unhealthy_pct |-> PctIn(g, {"Unhealthy", "Very Unhealthy", "Hazardous"})]
      : st \in {r.station_id : r \in DOMAIN A} }

-----------------------------------------------------------------------------
(* Inputs *)

Reading(ts, pm25, pm10, no2, o3) ==
    [timestamp |-> ts,
     pm25 |-> IF pm25 = NULL THEN NULL ELSE Tenths(pm25),
     pm10 |-> IF pm10 = NULL THEN NULL ELSE Tenths(pm10),
     no2 |-> IF no2 = NULL THEN NULL ELSE Tenths(no2),
     o3 |-> IF o3 = NULL THEN NULL ELSE Tenths(o3)]

\* Readings of an extract file: on a breakpoint (12.0) and above the last
\* one (400.4), with and without missing values, on two days.
Readings ==
    { Reading(0, 120, 500, 300, 400),
      Reading(1, 120, NULL, NULL, NULL),
      Reading(24, 4004, 700, 500, 600),
      Reading(2, NULL, 500, 300, 400),
      Reading(26, NULL, NULL, NULL, NULL) }

RowsOf(stations, readings) ==
    { [station_id |-> st, timestamp |-> m.timestamp, pm25 |-> m.pm25,
       pm10 |-> m.pm10, no2 |-> m.no2, o3 |-> m.o3]
      : st \in stations, m \in readings }

SeqToBag(s) ==
    [r \in {s[i] : i \in DOMAIN s} |-> Cardinality({i \in DOMAIN s : s[i] = r})]

\* Every non-empty file of at most MaxRows rows over a set of rows.
Files(rows) ==
    UNION { {SeqToBag(s) : s \in [1..n -> rows]} : n \in 1..MaxRows }

\* The readings of the second station: one with every value, far from the
\* values of the first station, and one with none.
OtherReadings ==
    { Reading(24, 4004, 700, 500, 600),
      Reading(26, NULL, NULL, NULL, NULL) }

AnyFile == Files(RowsOf({"ST001"}, Readings) \cup RowsOf({"ST002"}, OtherReadings))
Row(st, m) == CHOOSE r \in RowsOf({st}, {m}) : TRUE

\* The extract files of the pipeline that is run again and again: a station
\* with a missing value, a station with no value at all, two stations.
FewFiles ==
    { SeqToBag(<< Row("ST001", Reading(0, 120, 500, 300, 400)),
                  Row("ST001", Reading(2, NULL, 500, 300, 400)) >>),
      SeqToBag(<< Row("ST001", Reading(26, NULL, NULL, NULL, NULL)) >>),
      SeqToBag(<< Row("ST001", Reading(0, 120, 500, 300, 400)),
                  Row("ST002", Reading(24, 4004, 700, 500, 600)),
                  Row("ST002", Reading(24, 4004, 700, 500, 600)) >>) }

\* Inputs of the AQI function: the breakpoints, their neighbourhoods on the
\* grid of table values, and two concentrations far above the last one.
Breakpoints == {0, 120, 354, 554, 1504, 2504}
AqiInputs ==
    { q \in {Tenths(b) + d : b \in Breakpoints, d \in (0 - GridRadius)..GridRadius} : q >= 0 }
    \cup {Tenths(4004), Tenths(5000)}

-----------------------------------------------------------------------------
(* State *)

NoTable == [exists |-> FALSE, schema |-> "none", rows |-> EmptyBag]
NoViews == [daily_stats |-> "absent", hourly_patterns |-> "absent", station_summary |-> "absent"]
NoOutcome == [op |-> "none", result |-> "none"]

Idle ==
    /\ op = "idle"
    /\ pc = "none"

Finish(o, res) ==
    /\ op' = "idle"
    /\ pc' = "none"
    /\ outcome' = [op |-> o, result |-> res]

probe == <<inA, inB, outA, outB>>

InitStore ==
    /\ impl \in {"script", "dag"}
    /\ raw = NoTable
    /\ analytics = NoTable
    /\ views = NoViews
    /\ summary = <<>>
    /\ op = "idle"
    /\ pc = "none"
    /\ outcome = NoOutcome
    /\ rawBefore = NoTable
    /\ storeBefore = [analytics |-> NoTable, views |-> NoViews]
    /\ loadNulls = NULL
    /\ inA = NULL /\ inB = NULL /\ outA = NOCOL /\ outB = NOCOL

\* The pipeline with its extract file given.
Init ==
    /\ InitStore
    /\ csv \in {[exists |-> TRUE, rows |-> f] : f \in AnyFile}

\* The pipeline before its first extraction.
InitRerun ==
    /\ InitStore
    /\ csv = [exists |-> FALSE, rows |-> EmptyBag]

-----------------------------------------------------------------------------
(* Extract and Load *)

\* extract.py / extract_data: the extract file is overwritten.
Extract ==
    /\ Idle
    /\ \E f \in FewFiles : csv' = [exists |-> TRUE, rows |-> f]
    /\ outcome' = [op |-> "extract", result |-> "ok"]
    /\ UNCHANGED <<impl, raw, analytics, views, summary, op, pc, rawBefore, storeBefore, loadNulls, probe>>

\* init_db.py: CREATE TABLE IF NOT EXISTS raw_data_air_quality
InitDatabase ==
    /\ Idle
    /\ impl = "script"
    /\ raw' = IF raw.exists THEN raw ELSE [exists |-> TRUE, schema |-> "raw", rows |-> EmptyBag]
    /\ outcome' = [op |-> "init_db", result |-> "ok"]
    /\ UNCHANGED <<impl, csv, analytics, views, summary, op, pc, rawBefore, storeBefore, loadNulls, probe>>

\* load_raw_data up to the connection: a missing extract file is an error.
LoadStart ==
    /\ Idle
    /\ IF csv.exists
       THEN /\ op' = "load"
            /\ pc' = "drop"
            /\ UNCHANGED outcome
       ELSE Finish("load", "error")
    /\ loadNulls' = NULL
    /\ UNCHANGED <<impl, csv, raw, analytics, views, summary, rawBefore, storeBefore, probe>>

\* DROP TABLE IF EXISTS raw_data_air_quality
LoadDrop ==
    /\ op = "load" /\ pc = "drop"
    /\ raw' = NoTable
    /\ pc' = IF impl = "script" THEN "create" ELSE "create_as"
    /\ UNCHANGED <<impl, csv, analytics, views, summary, op, outcome, rawBefore, storeBefore, loadNulls, probe>>

\* CREATE TABLE raw_data_air_quality (...): an error over a table that exists.
LoadCreate ==
    /\ op = "load" /\ pc = "create"
    /\ IF ~raw.exists
       THEN /\ raw' = [exists |-> TRUE, schema |-> "raw", rows |-> EmptyBag]
            /\ pc' = "insert"
            /\ UNCHANGED <<op, outcome>>
       ELSE /\ Finish("load", "error")
            /\ UNCHANGED raw
    /\ UNCHANGED <<impl, csv, analytics, views, summary, rawBefore, storeBefore, loadNulls, probe>>

\* INSERT INTO raw_data_air_quality SELECT ... FROM df
LoadInsert ==
    /\ op = "load" /\ pc = "insert"
    /\ raw' = [raw EXCEPT !.rows = raw.rows (+) csv.rows]
    /\ pc' = "verify"
    /\ UNCHANGED <<impl, csv, analytics, views, summary, op, outcome, rawBefore, storeBefore, loadNulls, probe>>

\* CREATE TABLE raw_data_air_quality AS SELECT * FROM df: an error over a
\* table that exists.
LoadCreateAs ==
    /\ op = "load" /\ pc = "create_as"
    /\ IF ~raw.exists
       THEN /\ raw' = [exists |-> TRUE, schema |-> "raw", rows |-> csv.rows]
            /\ pc' = "verify"
            /\ UNCHANGED <<op, outcome>>
       ELSE /\ Finish("load", "error")
            /\ UNCHANGED raw
    /\ UNCHANGED <<impl, csv, analytics, views, summary, rawBefore, storeBefore, loadNulls, probe>>

\* COUNT(*) ... WHERE pm25 IS NULL OR no2 IS NULL OR o3 IS NULL
NullRows(B) ==
    BagSize(BagFilter(B, LAMBDA r : r.pm25 = NULL \/ r.no2 = NULL \/ r.o3 = NULL))

\* COUNT(*) - COUNT(pm25) + COUNT(*) - COUNT(no2)
DagNullValues(B) ==
    (BagSize(B) - CountOf(B, "pm25")) + (BagSize(B) - CountOf(B, "no2"))

\* The null count Load reports, then its return.
LoadVerify ==
    /\ op = "load" /\ pc = "verify"
    /\ loadNulls' = IF impl = "script" THEN NullRows(raw.rows) ELSE DagNullValues(raw.rows)
    /\ Finish("load", "ok")
    /\ UNCHANGED <<impl, csv, raw, analytics, views, summary, rawBefore, storeBefore, probe>>

\* A run killed, or failed on storage, between two of its statements.
Abort ==
    /\ op \in {"load", "transform"}
    /\ Finish(op, "error")
    /\ UNCHANGED <<impl, csv, raw, analytics, views, summary, rawBefore, storeBefore, loadNulls, probe>>

-----------------------------------------------------------------------------
(* Transform *)

TransformStart ==
    /\ Idle
    /\ op' = "transform"
    /\ pc' = IF impl = "script" THEN "count" ELSE "drop_table"
    /\ rawBefore' = raw
    /\ storeBefore' = [analytics |-> analytics, views |-> views]
    /\ UNCHANGED <<impl, csv, raw, analytics, views, summary, outcome, loadNulls, probe>>

At(label) == op = "transform" /\ pc = label

\* SELECT COUNT(*) FROM raw_data_air_quality, and the ValueError on 0.
ScriptCount ==
    /\ At("count")
    /\ impl = "script"
    /\ IF raw.exists /\ BagSize(raw.rows) # 0
       THEN /\ pc' = "table"
            /\ UNCHANGED <<op, outcome>>
       ELSE Finish("transform", "error")
    /\ UNCHANGED <<impl, csv, raw, analytics, views, summary, rawBefore, storeBefore, loadNulls, probe>>

\* CREATE TABLE IF NOT EXISTS: an existing table is kept as it is.
ScriptCreateTableIfNotExists ==
    /\ At("table")
    /\ analytics' = IF analytics.exists THEN analytics
                    ELSE [exists |-> TRUE, schema |-> "script", rows |-> ScriptAnalyticsRows(raw.rows)]
    /\ pc' = "daily"
    /\ UNCHANGED <<impl, csv, raw, views, summary, op, outcome, rawBefore, storeBefore, loadNulls, probe>>

\* Cleaning in place: the imputed values are also written to the raw table.
ScriptCreateTableInPlace ==
    /\ At("table")
    /\ analytics' = [exists |-> TRUE, schema |-> "script", rows |-> ScriptAnalyticsRows(raw.rows)]
    /\ raw' = [raw EXCEPT !.rows =
                  BagMap(raw.rows, LAMBDA r :
                      [r EXCEPT !.pm25 = Coalesce(r.pm25, StationAvg(raw.rows, r.station_id, "pm25"))])]
    /\ pc' = "daily"
    /\ UNCHANGED <<impl, csv, views, summary, op, outcome, rawBefore, storeBefore, loadNulls, probe>>

\* CREATE OR REPLACE TABLE analytics_air_quality AS ...
ScriptCreateTable ==
    /\ At("table")
    /\ analytics' = [exists |-> TRUE, schema |-> "script", rows |-> ScriptAnalyticsRows(raw.rows)]
    /\ pc' = "daily"
    /\ UNCHANGED <<impl, csv, raw, views, summary, op, outcome, rawBefore, storeBefore, loadNulls, probe>>

\* CREATE OR REPLACE VIEW daily_stats AS ...
ScriptCreateDaily ==
    /\ At("daily")
    /\ views' = [views EXCEPT !.daily_stats = "script"]
    /\ pc' = "hourly"
    /\ UNCHANGED <<impl, csv, raw, analytics, summary, op, outcome, rawBefore, storeBefore, loadNulls, probe>>

\* CREATE OR REPLACE VIEW hourly_patterns AS ...
ScriptCreateHourly ==
    /\ At("hourly")
    /\ views' = [views EXCEPT !.hourly_patterns = "script"]
    /\ pc' = "station"
    /\ UNCHANGED <<impl, csv, raw, analytics, summary, op, outcome, rawBefore, storeBefore, loadNulls, probe>>

\* CREATE OR REPLACE VIEW station_summary AS ...
ScriptCreateStation ==
    /\ At("station")
    /\ views' = [views EXCEPT !.station_summary = "script"]
    /\ pc' = "summary"
    /\ UNCHANGED <<impl, csv, raw, analytics, summary, op, outcome, rawBefore, storeBefore, loadNulls, probe>>

\* The exports, the summary query written to summary_stats.json, the final
\* count of raw nulls and the return.  The exported files are copies of the
\* table and the views and are not part of the state.
ScriptSummary ==
    /\ At("summary")
    /\ summary' = <<SummaryStats(analytics.rows)>>
    /\ Finish("transform", "ok")
    /\ UNCHANGED <<impl, csv, raw, analytics, views, rawBefore, storeBefore, loadNulls, probe>>

\* DROP TABLE IF EXISTS analytics_air_quality
DagDropTable ==
    /\ At("drop_table")
    /\ analytics' = NoTable
    /\ pc' = "create_table"
    /\ UNCHANGED <<impl, csv, raw, views, summary, op, outcome, rawBefore, storeBefore, loadNulls, probe>>

\* CREATE TABLE analytics_air_quality AS ...: an error without a raw table
\* or over an analytics table that exists.
DagCreateTable ==
    /\ At("create_table")
    /\ IF raw.exists /\ ~analytics.exists
       THEN /\ analytics' = [exists |-> TRUE, schema |-> "dag_nocat", rows |-> DagAnalyticsRows(raw.rows)]
            /\ pc' = "add_column"
            /\ UNCHANGED <<op, outcome>>
       ELSE /\ Finish("transform", "error")
            /\ UNCHANGED analytics
    /\ UNCHANGED <<impl, csv, raw, views, summary, rawBefore, storeBefore, loadNulls, probe>>

\* ALTER TABLE analytics_air_quality ADD COLUMN health_category VARCHAR
DagAddColumn ==
    /\ At("add_column")
    /\ analytics' = [exists |-> TRUE, schema |-> "dag", rows |-> DagAddCategoryColumn(analytics.rows)]
    /\ pc' = "update"
    /\ UNCHANGED <<impl, csv, raw, views, summary, op, outcome, rawBefore, storeBefore, loadNulls, probe>>

\* UPDATE analytics_air_quality SET health_category = CASE ... END
DagUpdate ==
    /\ At("update")
    /\ analytics' = [analytics EXCEPT !.rows = DagUpdateCategory(analytics.rows)]
    /\ pc' = "drop_hourly"
    /\ UNCHANGED <<impl, csv, raw, views, summary, op, outcome, rawBefore, storeBefore, loadNulls, probe>>

\* DROP VIEW IF EXISTS hourly_patterns
DagDropHourly ==
    /\ At("drop_hourly")
    /\ views' = [views EXCEPT !.hourly_patterns = "absent"]
    /\ pc' = "create_hourly"
    /\ UNCHANGED <<impl, csv, raw, analytics, summary, op, outcome, rawBefore, storeBefore, loadNulls, probe>>

\* CREATE VIEW hourly_patterns AS ...
DagCreateHourly ==
    /\ At("create_hourly")
    /\ views' = [views EXCEPT !.hourly_patterns = "dag"]
    /\ pc' = "drop_station"
    /\ UNCHANGED <<impl, csv, raw, analytics, summary, op, outcome, rawBefore, storeBefore, loadNulls, probe>>

\* DROP VIEW IF EXISTS station_summary
DagDropStation ==
    /\ At("drop_station")
    /\ views' = [views EXCEPT !.station_summary = "absent"]
    /\ pc' = "create_station"
    /\ UNCHANGED <<impl, csv, raw, analytics, summary, op, outcome, rawBefore, storeBefore, loadNulls, probe>>

\* CREATE VIEW station_summary AS ...
DagCreateStation ==
    /\ At("create_station")
    /\ views' = [views EXCEPT !.station_summary = "dag"]
    /\ pc' = "copy"
    /\ UNCHANGED <<impl, csv, raw, analytics, summary, op, outcome, rawBefore, storeBefore, loadNulls, probe>>

\* COPY ... TO parquet, the logged statistics and the return.  The copied
\* file is not part of the state.
DagCopy ==
    /\ At("copy")
    /\ Finish("transform", "ok")
    /\ UNCHANGED <<impl, csv, raw, analytics, views, summary, rawBefore, storeBefore, loadNulls, probe>>

-----------------------------------------------------------------------------
(* Validate *)

\* validate_pipeline: the three counts are read and logged, then "Pipeline
\* completed successfully!"; nothing is compared, and the only error is a
\* query over a table that does not exist.
Validate ==
    /\ Idle
    /\ impl = "dag"
    /\ IF raw.exists /\ analytics.exists
       THEN Finish("validate", "ok")
       ELSE Finish("validate", "error")
    /\ UNCHANGED <<impl, csv, raw, analytics, views, summary, rawBefore, storeBefore, loadNulls, probe>>

-----------------------------------------------------------------------------
(* The AQI function on its own *)

Aqi(i, q) == IF i = "script" THEN AqiScript(q) ELSE AqiDag(Coalesce(q, 0))

InitAqi ==
    /\ impl \in {"script", "dag"}
    /\ csv = [exists |-> FALSE, rows |-> EmptyBag]
    /\ raw = NoTable
    /\ analytics = NoTable
    /\ views = NoViews
    /\ summary = <<>>
    /\ op = "aqi"
    /\ pc = "none"
    /\ outcome = NoOutcome
    /\ rawBefore = NoTable
    /\ storeBefore = [analytics |-> NoTable, views |-> NoViews]
    /\ loadNulls = NULL
    /\ inA \in AqiInputs
    /\ inB \in AqiInputs
    /\ outA = NOCOL
    /\ outB = NOCOL

ComputeAqi ==
    /\ op = "aqi"
    /\ outA = NOCOL
    /\ outA' = Aqi(impl, inA)
    /\ outB' = Aqi(impl, inB)
    /\ UNCHANGED <<impl, csv, raw, analytics, views, summary, op, pc, outcome, rawBefore, storeBefore, loadNulls, inA, inB>>

-----------------------------------------------------------------------------
(* Specifications *)

Next ==
    \/ InitDatabase
    \/ LoadStart \/ LoadDrop \/ LoadCreate \/ LoadInsert \/ LoadCreateAs \/ LoadVerify
    \/ Abort
    \/ TransformStart
    \/ ScriptCount \/ ScriptCreateTable \/ ScriptCreateDaily \/ ScriptCreateHourly
    \/ ScriptCreateStation \/ ScriptSummary
    \/ DagDropTable \/ DagCreateTable \/ DagAddColumn \/ DagUpdate
    \/ DagDropHourly \/ DagCreateHourly \/ DagDropStation \/ DagCreateStation \/ DagCopy
    \/ Validate

NextRerun == Extract \/ Next

NextAqi == ComputeAqi

Spec == Init /\ [][Next]_vars
SpecRerun == InitRerun /\ [][NextRerun]_vars
SpecAqi == InitAqi /\ [][NextAqi]_vars

-----------------------------------------------------------------------------
(* Properties *)

\* Transform has returned normally and nothing has run since.
TransformCompleted == Idle /\ outcome = [op |-> "transform", result |-> "ok"]

\* Transform is running, or was the last operation to end.
InOrAfterTransform == op = "transform" \/ (Idle /\ outcome.op = "transform")

\* The null count of Load's own verification query.
LoadNullCount(B) == IF impl = "script" THEN NullRows(B) ELSE DagNullValues(B)

\* C1: Transform never modifies the Raw Store: during and after a run the
\* raw table is the table the run found, and its null count is the count
\* Load reported.
C1_RawStoreUntouched ==
    InOrAfterTransform =>
        /\ raw = rawBefore
        /\ (loadNulls # NULL /\ raw.exists) => LoadNullCount(raw.rows) = loadNulls

C1_Witness ==
    /\ TransformCompleted
    /\ impl = "script"
    /\ loadNulls = 2
    /\ NullRows(raw.rows) = 2
    /\ \E a \in DOMAIN analytics.rows : a.pm25 # NULL /\ a.pm25 \notin {r.pm25 : r \in DOMAIN raw.rows}

\* C2: for a non-empty Raw Store the analytics table of a completed
\* Transform has exactly as many rows as the raw table.
C2_RowCountConserved ==
    (TransformCompleted /\ raw.exists /\ BagSize(raw.rows) > 0) =>
        /\ analytics.exists
        /\ BagSize(analytics.rows) = BagSize(raw.rows)

C2_Witness ==
    /\ TransformCompleted
    /\ BagSize(raw.rows) = MaxRows
    /\ \E r \in DOMAIN raw.rows : r.pm25 = NULL /\ raw.rows[r] >= 2
    /\ BagSize(analytics.rows) = MaxRows

\* The fields the Imputation Stage is to fill.
ImputedFields == {"pm25", "pm10", "no2", "o3"}

\* Station st has a non-null raw value of field f.
HasValue(B, st, f) == \E r \in DOMAIN B : r.station_id = st /\ Field(r, f) # NULL

\* The arithmetic mean of the non-null raw values of f at station st, for a
\* station that has one: the m with m * count = total.
MeanOfValues(B, st, f) ==
    LET some == BagFilter(B, LAMBDA r : r.station_id = st /\ Field(r, f) # NULL)
        total == SumFn([r \in DOMAIN some |-> Field(r, f) * some[r]])
        m == total \div BagSize(some)
    IN  IF m * BagSize(some) = total THEN m ELSE NOCOL

\* Field f is imputed as specified: seen through (station, timestamp, f) the
\* analytics table is the raw table with every null replaced by the mean.
\* Stations without any value of f have no mean and are left aside.
ImputedAsSpecified(f) ==
    LET R == BagFilter(raw.rows, LAMBDA r : HasValue(raw.rows, r.station_id, f))
        A == BagFilter(analytics.rows, LAMBDA a : HasValue(raw.rows, a.station_id, f))
    IN  BagMap(A, LAMBDA a : <<a.station_id, a.timestamp, Field(a, f)>>)
          = BagMap(R, LAMBDA r :
                <<r.station_id, r.timestamp,
                  IF Field(r, f) # NULL THEN Field(r, f)
                  ELSE MeanOfValues(raw.rows, r.station_id, f)>>)

\* C3: every null of pm25, pm10, no2 and o3 is replaced by the mean of the
\* station's non-null values of the field, every non-null value is kept.
C3_ImputationCorrect ==
    TransformCompleted => \A f \in ImputedFields : ImputedAsSpecified(f)

\* C3, for scripts/transform.py alone.
C3_ScriptImputationCorrect ==
    (TransformCompleted /\ impl = "script") => \A f \in ImputedFields : ImputedAsSpecified(f)

\* C3, for the fields the DAG task imputes.
C3_DagImputationCorrect ==
    (TransformCompleted /\ impl = "dag") => \A f \in {"pm25", "no2"} : ImputedAsSpecified(f)

\* Some station has a null of f to fill and no value of f to fill it with.
UndefinedImputation(B) ==
    \E f \in ImputedFields : \E r \in DOMAIN B :
        Field(r, f) = NULL /\ ~HasValue(B, r.station_id, f)

\* C4: a Transform run over a Raw Store with an undefined imputation ends in
\* a reported failure: it does not complete, and leaves no null pollutant
\* value, null aqi or category of a null aqi in a completed table.
C4_UndefinedImputationFails ==
    /\ (Idle /\ outcome.op = "transform" /\ raw.exists /\ UndefinedImputation(raw.rows))
          => outcome.result = "error"
    /\ TransformCompleted =>
          \A a \in DOMAIN analytics.rows :
              /\ \A f \in ImputedFields : Field(a, f) # NULL
              /\ a.aqi # NULL

\* The label of the fixed threshold table; a null aqi has none.
ThresholdLabel(aqi) ==
    IF aqi = NULL THEN NullText
    ELSE IF aqi <= Points(50) THEN "Good"
    ELSE IF aqi <= Points(100) THEN "Moderate"
    ELSE IF aqi <= Points(150) THEN "Unhealthy for Sensitive Groups"
    ELSE IF aqi <= Points(200) THEN "Unhealthy"
    ELSE IF aqi <= Points(300) THEN "Very Unhealthy"
    ELSE "Hazardous"

\* C8: in every row of a completed analytics table health_category is the
\* label of the threshold table for the row's aqi (Hazardous only above
\* 300), and category and colour determine each other.
C8_CategoryMatchesThresholds ==
    TransformCompleted =>
        /\ \A a \in DOMAIN analytics.rows : a.health_category = ThresholdLabel(a.aqi)
        /\ analytics.schema = "script" =>
              \A a, b \in DOMAIN analytics.rows :
                  (a.health_category = b.health_category) <=> (a.health_color = b.health_color)

\* C8, for the rows that have an aqi.
C8_CategoryOfNonNullAqi ==
    TransformCompleted =>
        \A a \in DOMAIN analytics.rows :
            a.aqi # NULL => a.health_category = ThresholdLabel(a.aqi)

\* C9: in a completed analytics table two rows of equal pm25 have equal aqi.
C9_AqiDeterminedByPm25 ==
    TransformCompleted =>
        \A a, b \in DOMAIN analytics.rows : a.pm25 = b.pm25 => a.aqi = b.aqi

\* C9, for scripts/transform.py alone.
C9_ScriptAqiDeterminedByPm25 ==
    (TransformCompleted /\ impl = "script") =>
        \A a, b \in DOMAIN analytics.rows : a.pm25 = b.pm25 => a.aqi = b.aqi

\* The branches of the implementation under test.
Branches == IF impl = "script" THEN ScriptBranches ELSE DagBranches

\* The anchors of the breakpoint table: concentration in tenths, AQI points.
Anchors == { <<0, 0>>, <<120, 50>>, <<354, 100>>, <<554, 150>>, <<1504, 200>>, <<2504, 300>> }

\* C5: the AQI takes the anchor value on every breakpoint, and at a
\* breakpoint the segment that ends there and the segment that starts
\* there give the same value.
C5_BreakpointsExact ==
    outA # NOCOL =>
        /\ \A k \in Anchors : inA = Tenths(k[1]) => outA = Points(k[2])
        /\ \A i \in DOMAIN Branches :
              (i + 1 \in DOMAIN Branches /\ inA = Tenths(Branches[i].hi))
                  => outA = BranchValue(Branches[i + 1], inA)

C5_Witness ==
    /\ impl = "script"
    /\ inA = Tenths(2504)
    /\ outA = Points(300)
    /\ inB = Tenths(354)
    /\ outB = Points(100)

\* C6: the AQI is non-decreasing: a <= b implies AQI(a) <= AQI(b), across
\* segments and above the last breakpoint.
C6_Monotone ==
    (outA # NOCOL /\ inA <= inB) => outA <= outB

C6_Witness ==
    /\ outA # NOCOL
    /\ inA > Tenths(2504)
    /\ inA < inB
    /\ outA < outB

\* C7: above 250.4 the AQI is 300 + (pm25 - 250.4), the slope of the
\* segment (150.4, 250.4].
C7_LastSlopeExtrapolated ==
    (outA # NOCOL /\ inA > Tenths(2504)) =>
        outA = Points(300) + (inA - Tenths(2504)) * (AqiDen \div 10)

\* C7, for the DAG task alone.
C7_DagLastSlopeExtrapolated ==
    (outA # NOCOL /\ impl = "dag" /\ inA > Tenths(2504)) =>
        outA = Points(300) + (inA - Tenths(2504)) * (AqiDen \div 10)

\* What a query of the three views returns: the rows of a view that is
\* defined over a table with the columns it names, an error over a table
\* without them, nothing for a view that is not defined.
NoRows(status, empty) == [status |-> status, rows |-> empty]
ViewContents(A, V) ==
    [daily_stats |->
        IF V.daily_stats = "absent" THEN NoRows("absent", {})
        ELSE IF ~A.exists \/ A.schema # "script" THEN NoRows("error", {})
        ELSE [status |-> "ok", rows |-> DailyStats(A.rows)],
     hourly_patterns |->
        IF V.hourly_patterns = "absent" THEN NoRows("absent", <<>>)
        ELSE IF ~A.exists \/ (V.hourly_patterns = "script" /\ A.schema # "script")
             THEN NoRows("error", <<>>)
        ELSE [status |-> "ok",
              rows |-> IF V.hourly_patterns = "script" THEN HourlyPatterns(A.rows)
                       ELSE DagHourlyPatterns(A.rows)],
     station_summary |->
        IF V.station_summary = "absent" THEN NoRows("absent", {})
        ELSE IF ~A.exists \/ A.schema = "dag_nocat"
                \/ (V.station_summary = "script" /\ A.schema # "script")
             THEN NoRows("error", {})
        ELSE [status |-> "ok",
              rows |-> IF V.station_summary = "script" THEN StationSummary(A.rows)
                       ELSE DagStationSummary(A.rows)]]

\* The table and the views one uninterrupted run builds in an empty
\* analytics store from raw rows B.
SingleRun(B) ==
    IF impl = "script"
    THEN LET T == ScriptAnalyticsRows(B)
         IN  [table |-> T,
              views |-> [daily_stats |-> [status |-> "ok", rows |-> DailyStats(T)],
                         hourly_patterns |-> [status |-> "ok", rows |-> HourlyPatterns(T)],
                         station_summary |-> [status |-> "ok", rows |-> StationSummary(T)]]]
    ELSE LET T == DagUpdateCategory(DagAddCategoryColumn(DagAnalyticsRows(B)))
         IN  [table |-> T,
              views |-> [daily_stats |-> NoRows("absent", {}),
                         hourly_patterns |-> [status |-> "ok", rows |-> DagHourlyPatterns(T)],
                         station_summary |-> [status |-> "ok", rows |-> DagStationSummary(T)]]]

\* C10: the analytics table and the views a completed Transform leaves are
\* those of a single uninterrupted run over the current raw table, whatever
\* the analytics store held when the run started.
C10_RerunReproducesSingleRun ==
    TransformCompleted =>
        /\ analytics.exists
        /\ analytics.rows = SingleRun(raw.rows).table
        /\ ViewContents(analytics, views) = SingleRun(raw.rows).views

\* A run completed over the leftovers of a run that failed half-way on
\* other raw contents.
C10_Witness ==
    /\ TransformCompleted
    /\ storeBefore.analytics.exists
    /\ storeBefore.analytics.rows # analytics.rows
    /\ storeBefore.views.hourly_patterns # "absent"
    /\ storeBefore.views.station_summary = "absent"
    /\ BagSize(analytics.rows) >= 2

\* A second run completed over an unchanged raw table.
C10_SecondRun ==
    /\ TransformCompleted
    /\ storeBefore = [analytics |-> analytics, views |-> views]
    /\ BagSize(analytics.rows) >= 2

\* The raw table the run found was absent or had no row.
RawEmptyOrAbsent == ~rawBefore.exists \/ BagSize(rawBefore.rows) = 0

\* C11: a Transform over an empty or absent raw table ends with an error,
\* and the analytics table and the views keep what they held at the call.
C11_EmptyRawFailsFast ==
    (InOrAfterTransform /\ RawEmptyOrAbsent) =>
        /\ analytics = storeBefore.analytics
        /\ views = storeBefore.views
        /\ Idle => outcome.result = "error"

\* C11, for scripts/transform.py alone.
C11_ScriptFailsFast ==
    impl = "script" => C11_EmptyRawFailsFast

\* The run has reported success of its validation: validate_pipeline has
\* returned, or transform_data has returned after its closing verification
\* of the raw table.
ValidationSucceeded ==
    \/ impl = "dag" /\ Idle /\ outcome = [op |-> "validate", result |-> "ok"]
    \/ impl = "script" /\ TransformCompleted

\* C12: validation does not report success when the analytics table and
\* the raw table differ in their row counts, or when the raw table's null
\* count is not the one Load reported.
C12_ValidatorFailsOnViolation ==
    ValidationSucceeded =>
        /\ raw.exists /\ analytics.exists
        /\ BagSize(analytics.rows) = BagSize(raw.rows)
        /\ loadNulls # NULL => LoadNullCount(raw.rows) = loadNulls

\* C12, for the closing verification of scripts/transform.py alone.
C12_ScriptVerification ==
    impl = "script" => C12_ValidatorFailsOnViolation

\* The analytics table is the one a complete run builds from the raw table.
FullyRebuilt ==
    /\ analytics.exists
    /\ analytics.schema \in {"script", "dag"}
    /\ analytics.rows = SingleRun(raw.rows).table

\* C13: during a Transform, and after one that was killed or has failed,
\* the analytics table is the table the run found or the fully rebuilt one.
C13_TableReplacedAtomically ==
    InOrAfterTransform => (analytics = storeBefore.analytics \/ FullyRebuilt)

\* C13, for scripts/transform.py alone.
C13_ScriptTableReplacedAtomically ==
    impl = "script" => C13_TableReplacedAtomically

\* 100 * hours / n rounded to one decimal, in tenths of a percent.
PctOfHours(hours, n) == RoundRatio(hours * 100, n, 10)

\* The unhealthy hours daily_stats counts, over the days of a set of its rows.
UnhealthyHours(D) == SumFn([d \in D |-> d.unhealthy_hours])

\* C14: after a run of scripts/transform.py, pct_unhealthy of every row of
\* station_summary is the percentage of the station's unhealthy_hours of
\* daily_stats in its total_measurements, and pct_unhealthy of the summary
\* record is that percentage over all rows.
C14_UnhealthyCountedAlike ==
    (impl = "script" /\ TransformCompleted) =>
        LET D == DailyStats(analytics.rows)
        IN  /\ \A s \in StationSummary(analytics.rows) :
                  s.pct_unhealthy =
                      PctOfHours(UnhealthyHours({d \in D : d.station_id = s.station_id}),
                                 s.total_measurements)
            /\ summary[1].pct_unhealthy = PctOfHours(UnhealthyHours(D), summary[1].total_records)

\* C14, for tables without a Hazardous row.
C14_AlikeWithoutHazardous ==
    (\A r \in DOMAIN analytics.rows : r.health_category # "Hazardous")
        => C14_UnhealthyCountedAlike

\* C14, for the summary record and daily_stats alone.
C14_SummaryAndDailyAlike ==
    (impl = "script" /\ TransformCompleted) =>
        summary[1].pct_unhealthy =
            PctOfHours(UnhealthyHours(DailyStats(analytics.rows)), summary[1].total_records)

\* A completed run over measured values only, one of them above 250.4, whose
\* station_summary and daily_stats differ in the unhealthy measure.
C14_MeasuredHazardousDiffers ==
    /\ impl = "script" /\ TransformCompleted
    /\ \A r \in DOMAIN analytics.rows : r.aqi # NULL
    /\ \E s \in StationSummary(analytics.rows) :
          s.pct_unhealthy #
              PctOfHours(UnhealthyHours({d \in DailyStats(analytics.rows) : d.station_id = s.station_id}),
                         s.total_measurements)

====
